---- MODULE Spec2Model ----
(***************************************************************************)
(* Model of build.py, the build automation of the Shoal Redfish            *)
(* aggregator: the dispatcher main(), the validate pipeline, the           *)
(* single-step subcommands, the platform matrix build and the build-info   *)
(* recorder.                                                               *)
(*                                                                         *)
(* One run of the script is: Start (argument parsing and dispatch), one    *)
(* action per operation of BuildRunner the dispatcher calls, Finish        *)
(* (print_summary and sys.exit).  The filesystem outlives a run, so a new  *)
(* run may start after the previous one has exited.                        *)
(*                                                                         *)
(* Every external command is an input: what a subprocess does (exit code,  *)
(* output, files written, a fault of subprocess.run, Ctrl-C while it runs) *)
(* is drawn with \E at the call that spawns it.                            *)
(***************************************************************************)
EXTENDS Integers, Sequences, FiniteSets, TLC

(***************************************************************************)
(* Paths are sequences of components below root_dir; the filesystem maps   *)
(* every existing path to a tag: "dir", "file", or, for a compiled         *)
(* platform binary, the target "os/arch" the compiler was asked for.       *)
(***************************************************************************)
root_dir == << >>

build_dir == root_dir \o <<"build">>

NoFiles == [p \in {} |-> "file"]

Exists(fs, p) == p \in DOMAIN fs

WriteFile(fs, p, tag) == [q \in DOMAIN fs \cup {p} |-> IF q = p THEN tag ELSE fs[q]]

\* Path.mkdir(exist_ok=True)
Mkdir(fs, p) == IF Exists(fs, p) THEN fs ELSE WriteFile(fs, p, "dir")

RemovePaths(fs, ps) == [q \in DOMAIN fs \ ps |-> fs[q]]

\* str(path): the components joined by "/"
RECURSIVE str(_)
str(p) ==
    IF p = << >> THEN "."
    ELSE IF Len(p) = 1 THEN p[1]
    ELSE p[1] \o "/" \o str(Tail(p))

\* shutil.rmtree(p): p and everything below it
Rmtree(fs, p) ==
    RemovePaths(fs, {q \in DOMAIN fs : Len(q) >= Len(p) /\ SubSeq(q, 1, Len(p)) = p})

SUPPORTED_PLATFORMS ==
    << <<"linux", "amd64">>,
       <<"windows", "amd64">>,
       <<"darwin", "amd64">>,
       <<"linux", "arm64">>,
       <<"darwin", "arm64">> >>

TargetId(goos, goarch) == goos \o "/" \o goarch

SupportedIds == {TargetId(SUPPORTED_PLATFORMS[i][1], SUPPORTED_PLATFORMS[i][2]) :
                    i \in 1..Len(SUPPORTED_PLATFORMS)}

(***************************************************************************)
(* The process environment (os.environ) the script inherits.               *)
(***************************************************************************)
\* env[k] = v on a copy of the environment
EnvSet(env, k, v) == [x \in DOMAIN env \cup {k} |-> IF x = k THEN v ELSE env[x]]

\* BuildRunner.__init__: self.binary_name
binary_name(host) == IF host = "Windows" THEN "shoal.exe" ELSE "shoal"

(***************************************************************************)
(* Text a command prints is a sequence of characters.                      *)
(***************************************************************************)
GoVersionOut == <<"g", "o", "1", ".", "2", "2", "\n">>

(***************************************************************************)
(* What subprocess.run can do with a command: the process exits with a     *)
(* code, the executable is missing (FileNotFoundError), subprocess.run     *)
(* raises another exception (PermissionError, UnicodeDecodeError, ...), or *)
(* the user presses Ctrl-C while it runs (KeyboardInterrupt).              *)
(***************************************************************************)
ProcOutcomes == {"exit0", "exit1", "exit2", "notfound", "oserror", "interrupt"}

\* ' '.join(cmd)
RECURSIVE join(_)
join(cmd) ==
    IF cmd = << >> THEN ""
    ELSE IF Len(cmd) = 1 THEN cmd[1]
    ELSE cmd[1] \o " " \o join(Tail(cmd))

\* run_command without its except clause: the FileNotFoundError leaves it
run_command_no_except(cmd, check, o, out) ==
    CASE o = "exit0"     -> [kind |-> "ret", code |-> 0, stdout |-> out, stderr |-> "",
                             printed |-> << >>]
      [] o = "exit1"     -> [kind |-> "ret", code |-> 1, stdout |-> out, stderr |-> "error",
                             printed |-> IF check THEN <<"Command failed: " \o join(cmd)>>
                                         ELSE << >>]
      [] o = "exit2"     -> [kind |-> "ret", code |-> 2, stdout |-> out, stderr |-> "error",
                             printed |-> IF check THEN <<"Command failed: " \o join(cmd)>>
                                         ELSE << >>]
      [] o = "notfound"  -> [kind |-> "exc", code |-> -1, stdout |-> << >>, stderr |-> "",
                             printed |-> << >>]
      [] o = "oserror"   -> [kind |-> "exc", code |-> -1, stdout |-> << >>, stderr |-> "",
                             printed |-> << >>]
      [] o = "interrupt" -> [kind |-> "int", code |-> -1, stdout |-> << >>, stderr |-> "",
                             printed |-> << >>]

\* run_command: kind "ret" is a returned (returncode, stdout, stderr); "exc"
\* and "int" are an exception and a KeyboardInterrupt leaving run_command.
\* printed is the error line run_command prints itself.  A process that
\* exits with a code other than 0 has written "error" to its stderr.
run_command(cmd, check, o, out) ==
    CASE o = "exit0"     -> [kind |-> "ret", code |-> 0, stdout |-> out, stderr |-> "",
                             printed |-> << >>]
      [] o = "exit1"     -> [kind |-> "ret", code |-> 1, stdout |-> out, stderr |-> "error",
                             printed |-> IF check THEN <<"Command failed: " \o join(cmd)>>
                                         ELSE << >>]
      [] o = "exit2"     -> [kind |-> "ret", code |-> 2, stdout |-> out, stderr |-> "error",
                             printed |-> IF check THEN <<"Command failed: " \o join(cmd)>>
                                         ELSE << >>]
      [] o = "notfound"  -> [kind |-> "ret", code |-> 1, stdout |-> << >>,
                             stderr |-> "Command not found: " \o cmd[1],
                             printed |-> <<"Command not found: " \o cmd[1]>>]
      [] o = "oserror"   -> [kind |-> "exc", code |-> -1, stdout |-> << >>, stderr |-> "",
                             printed |-> << >>]
      [] o = "interrupt" -> [kind |-> "int", code |-> -1, stdout |-> << >>, stderr |-> "",
                             printed |-> << >>]

\* the subprocess came into being and ran to its end
Ran(o) == o \in {"exit0", "exit1", "exit2"}

\* one call of run_command: its arguments, what subprocess.run did, what the
\* process wrote to its stdout, and what run_command gave back
Call(cmd, check, o, out) ==
    [cmd |-> cmd, check |-> check, o |-> o, out |-> out,
     ret |-> run_command(cmd, check, o, out)]

\* result of an operation: True, False, an Exception, a KeyboardInterrupt
Results == {"ok", "fail", "exc", "int"}

\* what an operation did: its result, the filesystem it leaves, the calls of
\* run_command it made in order, and the command of the last of them
Op(res, fs, calls) ==
    [res |-> res, fs |-> fs, calls |-> calls,
     cmd |-> IF calls = << >> THEN << >> ELSE calls[Len(calls)].cmd]

(***************************************************************************)
(* The operations of BuildRunner.  Each takes the outcomes of the commands *)
(* it may run and the filesystem.                                          *)
(***************************************************************************)
check_prerequisites(o, fs) ==
    LET c == Call(<<"go", "version">>, FALSE, o, GoVersionOut)
        r == c.ret
    IN  IF r.kind # "ret" THEN Op(r.kind, fs, <<c>>)
        ELSE IF r.code # 0 THEN Op("fail", fs, <<c>>)
        ELSE IF ~Exists(fs, root_dir \o <<"go.mod">>) THEN Op("fail", fs, <<c>>)
        ELSE Op("ok", fs, <<c>>)

download_dependencies(o1, o2, fs) ==
    LET c1 == Call(<<"go", "mod", "download">>, TRUE, o1, << >>)
        c2 == Call(<<"go", "mod", "verify">>, TRUE, o2, << >>)
        r1 == c1.ret
        r2 == c2.ret
    IN  IF r1.kind # "ret" THEN Op(r1.kind, fs, <<c1>>)
        ELSE IF r1.code # 0 THEN Op("fail", fs, <<c1>>)
        ELSE IF r2.kind # "ret" THEN Op(r2.kind, fs, <<c1, c2>>)
        ELSE IF r2.code # 0 THEN Op("fail", fs, <<c1, c2>>)
        ELSE Op("ok", fs, <<c1, c2>>)

format_code(o, fs) ==
    LET c == Call(<<"go", "fmt", "./...">>, TRUE, o, << >>)
        r == c.ret
    IN  IF r.kind # "ret" THEN Op(r.kind, fs, <<c>>)
        ELSE IF r.code # 0 THEN Op("fail", fs, <<c>>)
        ELSE Op("ok", fs, <<c>>)

\* lint_code that takes the exit code of the probe for the verdict of the
\* linter
lint_code_probe_only(o1, o2, fs) ==
    LET c1 == Call(<<"golangci-lint", "--version">>, FALSE, o1, << >>)
        c3 == Call(<<"go", "vet", "./...">>, TRUE, o2, << >>)
        r1 == c1.ret
        r3 == c3.ret
    IN  IF r1.kind # "ret" THEN Op(r1.kind, fs, <<c1>>)
        ELSE IF r1.code = 0 THEN Op("ok", fs, <<c1>>)
        ELSE IF r3.kind # "ret" THEN Op(r3.kind, fs, <<c1, c3>>)
        ELSE IF r3.code # 0 THEN Op("fail", fs, <<c1, c3>>)
        ELSE Op("ok", fs, <<c1, c3>>)

lint_code(o1, o2, fs) ==
    LET c1 == Call(<<"golangci-lint", "--version">>, FALSE, o1, << >>)
        c2 == Call(<<"golangci-lint", "run">>, TRUE, o2, << >>)
        c3 == Call(<<"go", "vet", "./...">>, TRUE, o2, << >>)
        r1 == c1.ret
        r2 == c2.ret
        r3 == c3.ret
    IN  IF r1.kind # "ret" THEN Op(r1.kind, fs, <<c1>>)
        ELSE IF r1.code = 0
             THEN IF r2.kind # "ret" THEN Op(r2.kind, fs, <<c1, c2>>)
                  ELSE IF r2.code # 0 THEN Op("fail", fs, <<c1, c2>>)
                  ELSE Op("ok", fs, <<c1, c2>>)
             ELSE IF r3.kind # "ret" THEN Op(r3.kind, fs, <<c1, c3>>)
                  ELSE IF r3.code # 0 THEN Op("fail", fs, <<c1, c3>>)
                  ELSE Op("ok", fs, <<c1, c3>>)

\* run_tests that returns False when the coverage summary cannot be made
run_tests_coverage_decides(with_coverage, o1, wroteProfile, o2, o3, wroteHtml, fs) ==
    LET test == IF with_coverage
                THEN <<"go", "test", "-coverprofile=coverage.out", "-v", "./...">>
                ELSE <<"go", "test", "-v", "./...">>
        profile == root_dir \o <<"coverage.out">>
        report == root_dir \o <<"coverage.html">>
        c1 == Call(test, TRUE, o1, << >>)
        c2 == Call(<<"go", "tool", "cover", "-func=coverage.out">>, FALSE, o2, << >>)
        c3 == Call(<<"go", "tool", "cover", "-html=coverage.out", "-o", "coverage.html">>,
                   FALSE, o3, << >>)
        r1 == c1.ret
        r2 == c2.ret
        r3 == c3.ret
        fs1 == IF with_coverage /\ Ran(o1) /\ wroteProfile
               THEN WriteFile(fs, profile, "file") ELSE fs
        fs3 == IF o3 = "exit0" /\ wroteHtml THEN WriteFile(fs1, report, "file") ELSE fs1
    IN  IF r1.kind # "ret" THEN Op(r1.kind, fs1, <<c1>>)
        ELSE IF r1.code # 0 THEN Op("fail", fs1, <<c1>>)
        ELSE IF with_coverage /\ Exists(fs1, profile)
             THEN IF r2.kind # "ret" THEN Op(r2.kind, fs1, <<c1, c2>>)
                  ELSE IF r2.code = 0
                       THEN IF r3.kind # "ret" THEN Op(r3.kind, fs1, <<c1, c2, c3>>)
                            ELSE Op("ok", fs3, <<c1, c2, c3>>)
                       ELSE Op("fail", fs1, <<c1, c2>>)
             ELSE Op("ok", fs1, <<c1>>)

\* go test writes the profile (wroteProfile) when it ran with -coverprofile;
\* go tool cover -html writes the report (wroteHtml) when it exits 0.
run_tests(with_coverage, o1, wroteProfile, o2, o3, wroteHtml, fs) ==
    LET test == IF with_coverage
                THEN <<"go", "test", "-coverprofile=coverage.out", "-v", "./...">>
                ELSE <<"go", "test", "-v", "./...">>
        profile == root_dir \o <<"coverage.out">>
        report == root_dir \o <<"coverage.html">>
        c1 == Call(test, TRUE, o1, << >>)
        c2 == Call(<<"go", "tool", "cover", "-func=coverage.out">>, FALSE, o2, << >>)
        c3 == Call(<<"go", "tool", "cover", "-html=coverage.out", "-o", "coverage.html">>,
                   FALSE, o3, << >>)
        r1 == c1.ret
        r2 == c2.ret
        r3 == c3.ret
        fs1 == IF with_coverage /\ Ran(o1) /\ wroteProfile
               THEN WriteFile(fs, profile, "file") ELSE fs
        fs3 == IF o3 = "exit0" /\ wroteHtml THEN WriteFile(fs1, report, "file") ELSE fs1
    IN  IF r1.kind # "ret" THEN Op(r1.kind, fs1, <<c1>>)
        ELSE IF r1.code # 0 THEN Op("fail", fs1, <<c1>>)
        ELSE IF with_coverage /\ Exists(fs1, profile)
             THEN IF r2.kind # "ret" THEN Op(r2.kind, fs1, <<c1, c2>>)
                  ELSE IF r2.code = 0
                       THEN IF r3.kind # "ret" THEN Op(r3.kind, fs1, <<c1, c2, c3>>)
                            ELSE Op("ok", fs3, <<c1, c2, c3>>)
                       ELSE Op("ok", fs1, <<c1, c2>>)
             ELSE Op("ok", fs1, <<c1>>)

\* build_binary that returns False when the binary does not run
build_binary_exec_decides(host, o1, wrote, o2, fs) ==
    LET fs0 == Mkdir(fs, build_dir)
        binary_path == build_dir \o <<binary_name(host)>>
        c1 == Call(<<"go", "build", "-ldflags", "-s -w -extldflags=-static",
                     "-tags", "netgo,osusergo", "-o", str(binary_path), "./cmd/shoal">>,
                   TRUE, o1, << >>)
        c2 == Call(<<str(binary_path), "-h">>, FALSE, o2, << >>)
        r1 == c1.ret
        r2 == c2.ret
        fs1 == IF o1 \in {"exit0", "interrupt"} /\ wrote
               THEN WriteFile(fs0, binary_path, "file") ELSE fs0
    IN  IF r1.kind # "ret" THEN Op(r1.kind, fs1, <<c1>>)
        ELSE IF r1.code # 0 THEN Op("fail", fs1, <<c1>>)
        ELSE IF ~Exists(fs1, binary_path) THEN Op("fail", fs1, <<c1>>)
        ELSE IF r2.kind # "ret" THEN Op(r2.kind, fs1, <<c1, c2>>)
        ELSE IF r2.code # 0 THEN Op("fail", fs1, <<c1, c2>>)
        ELSE Op("ok", fs1, <<c1, c2>>)

\* the compiler writes its output (wrote) when it exits 0; a compiler that is
\* interrupted may leave its output behind
build_binary(host, o1, wrote, o2, fs) ==
    LET fs0 == Mkdir(fs, build_dir)
        binary_path == build_dir \o <<binary_name(host)>>
        c1 == Call(<<"go", "build", "-ldflags", "-s -w -extldflags=-static",
                     "-tags", "netgo,osusergo", "-o", str(binary_path), "./cmd/shoal">>,
                   TRUE, o1, << >>)
        c2 == Call(<<str(binary_path), "-h">>, FALSE, o2, << >>)
        r1 == c1.ret
        r2 == c2.ret
        fs1 == IF o1 \in {"exit0", "interrupt"} /\ wrote
               THEN WriteFile(fs0, binary_path, "file") ELSE fs0
    IN  IF r1.kind # "ret" THEN Op(r1.kind, fs1, <<c1>>)
        ELSE IF r1.code # 0 THEN Op("fail", fs1, <<c1>>)
        ELSE IF ~Exists(fs1, binary_path) THEN Op("fail", fs1, <<c1>>)
        ELSE IF r2.kind # "ret" THEN Op(r2.kind, fs1, <<c1, c2>>)
        ELSE Op("ok", fs1, <<c1, c2>>)

\* run_security_checks that fails when the scanner is not installed
run_security_checks_required(o1, o2, fs) ==
    LET c1 == Call(<<"gosec", "-version">>, FALSE, o1, << >>)
        c2 == Call(<<"gosec", "./...">>, TRUE, o2, << >>)
        r1 == c1.ret
        r2 == c2.ret
    IN  IF r1.kind # "ret" THEN Op(r1.kind, fs, <<c1>>)
        ELSE IF r1.code = 0
             THEN IF r2.kind # "ret" THEN Op(r2.kind, fs, <<c1, c2>>)
                  ELSE IF r2.code # 0 THEN Op("fail", fs, <<c1, c2>>)
                  ELSE Op("ok", fs, <<c1, c2>>)
             ELSE Op("fail", fs, <<c1>>)

run_security_checks(o1, o2, fs) ==
    LET c1 == Call(<<"gosec", "-version">>, FALSE, o1, << >>)
        c2 == Call(<<"gosec", "./...">>, TRUE, o2, << >>)
        r1 == c1.ret
        r2 == c2.ret
    IN  IF r1.kind # "ret" THEN Op(r1.kind, fs, <<c1>>)
        ELSE IF r1.code = 0
             THEN IF r2.kind # "ret" THEN Op(r2.kind, fs, <<c1, c2>>)
                  ELSE IF r2.code # 0 THEN Op("fail", fs, <<c1, c2>>)
                  ELSE Op("ok", fs, <<c1, c2>>)
             ELSE Op("ok", fs, <<c1>>)

\* subprocess.run(cmd, cwd=..., capture_output=True, text=True, check=False):
\* no env= is given, so the child gets the environment of the script
subprocess_env(environ) == environ

\* artifact_name without the architecture in the file name
artifact_name_no_arch(goos, goarch) ==
    "shoal-" \o goos \o (IF goos = "windows" THEN ".exe" ELSE "")

\* build_for_platform: ext and binary_name
artifact_name(goos, goarch) ==
    "shoal-" \o goos \o "-" \o goarch \o (IF goos = "windows" THEN ".exe" ELSE "")

\* platform_build_failed that trusts the exit code and does not look for the file
platform_build_failed_code_only(ret_code, exists) == ret_code # 0

\* build_for_platform: the test after the compiler has returned
platform_build_failed(ret_code, exists) == ret_code # 0 \/ ~exists

\* build_for_platform with env = os.environ, the environment itself and not
\* a copy of it
build_for_platform_shared_env(goos, goarch, o, wrote, fs, environ) ==
    LET fs0 == Mkdir(fs, build_dir)
        binary_path == build_dir \o <<artifact_name(goos, goarch)>>
        env == EnvSet(EnvSet(environ, "GOOS", goos), "GOARCH", goarch)
        cmd == <<"go", "build", "-ldflags", "-s -w -extldflags=-static",
                 "-tags", "netgo,osusergo", "-o", str(binary_path), "./cmd/shoal">>
        c == Call(cmd, TRUE, o, << >>)
        r == c.ret
        fs1 == IF o \in {"exit0", "interrupt"} /\ wrote
               THEN WriteFile(fs0, binary_path, TargetId(goos, goarch)) ELSE fs0
        res == IF r.kind # "ret" THEN r.kind
               ELSE IF platform_build_failed(r.code, Exists(fs1, binary_path)) THEN "fail"
               ELSE "ok"
    IN  [res |-> res, fs |-> fs1, cmd |-> cmd, calls |-> <<c>>, env |-> env,
         environ |-> env]

\* The compiler writes its output (wrote) when it exits 0; a compiler that is
\* interrupted may leave its output behind.  env is the copy of the
\* environment the function prepares (it is handed to nobody); environ is
\* os.environ when the function ends.
build_for_platform(goos, goarch, o, wrote, fs, environ) ==
    LET fs0 == Mkdir(fs, build_dir)
        binary_path == build_dir \o <<artifact_name(goos, goarch)>>
        env == EnvSet(EnvSet(environ, "GOOS", goos), "GOARCH", goarch)
        cmd == <<"go", "build", "-ldflags", "-s -w -extldflags=-static",
                 "-tags", "netgo,osusergo", "-o", str(binary_path), "./cmd/shoal">>
        c == Call(cmd, TRUE, o, << >>)
        r == c.ret
        fs1 == IF o \in {"exit0", "interrupt"} /\ wrote
               THEN WriteFile(fs0, binary_path, TargetId(goos, goarch)) ELSE fs0
        res == IF r.kind # "ret" THEN r.kind
               ELSE IF platform_build_failed(r.code, Exists(fs1, binary_path)) THEN "fail"
               ELSE "ok"
    IN  [res |-> res, fs |-> fs1, cmd |-> cmd, calls |-> <<c>>, env |-> env,
         environ |-> environ]

\* accumulate that keeps the result of the last target only (all_ok = ok)
accumulate_last(all_ok, ok) == ok

\* build_all_platforms: all_ok = all_ok and ok
accumulate(all_ok, ok) == all_ok /\ ok

(***************************************************************************)
(* str.strip(), s[:n] and bool(s) on character sequences; chars turns a    *)
(* character sequence into a string.                                       *)
(***************************************************************************)
Whitespace == {" ", "\n", "\t"}

RECURSIVE lstrip(_)
lstrip(s) == IF s # << >> /\ Head(s) \in Whitespace THEN lstrip(Tail(s)) ELSE s

RECURSIVE rstrip(_)
rstrip(s) ==
    IF s # << >> /\ s[Len(s)] \in Whitespace THEN rstrip(SubSeq(s, 1, Len(s) - 1)) ELSE s

strip(s) == rstrip(lstrip(s))

prefix(s, n) == SubSeq(s, 1, IF Len(s) < n THEN Len(s) ELSE n)

RECURSIVE chars(_)
chars(s) == IF s = << >> THEN "" ELSE Head(s) \o chars(Tail(s))

\* what the metadata probes may print when they exit 0
CommitOuts == { <<"a", "1", "b", "2", "c", "3", "d", "4", "e", "5", "\n">>,
                <<"a", "b", "c", "\n">> }

BranchOuts == { <<"m", "a", "i", "n", "\n">>, << >> }

StatusOuts == { << >>, <<" ", "M", " ", "f", "\n">> }

GoOuts == { GoVersionOut }

\* a probe: the outcome of its command and, when it exits 0, what it printed
Probes(outs) ==
    {[o |-> "exit0", out |-> t] : t \in outs}
    \cup {[o |-> x, out |-> << >>] : x \in {"exit1", "notfound", "oserror", "interrupt"}}

\* Path.write_text: done, open() failed, or the write failed on the opened file
WriteOutcomes == {"ok", "openfail", "writefail"}

NoInfo == [go_version |-> "", git_commit |-> "", git_branch |-> "",
           git_dirty |-> FALSE, platform |-> ""]

\* generate_build_info: the four probes, the record, the write of the record;
\* write_text cannot open a file in a build directory that does not exist.
\* (The timestamp and platform.machine() are not modelled.)
generate_build_info(host, p1, p2, p3, p4, w, fs) ==
    LET c1 == Call(<<"git", "rev-parse", "HEAD">>, FALSE, p1.o, p1.out)
        c2 == Call(<<"git", "branch", "--show-current">>, FALSE, p2.o, p2.out)
        c3 == Call(<<"git", "status", "--porcelain">>, FALSE, p3.o, p3.out)
        c4 == Call(<<"go", "version">>, FALSE, p4.o, p4.out)
        r1 == c1.ret
        r2 == c2.ret
        r3 == c3.ret
        r4 == c4.ret
        git_commit == IF r1.code = 0 THEN chars(prefix(strip(r1.stdout), 8)) ELSE "unknown"
        git_branch == IF r2.code = 0 THEN chars(strip(r2.stdout)) ELSE "unknown"
        git_dirty == IF r3.code = 0 THEN strip(r3.stdout) # << >> ELSE FALSE
        go_version == IF r4.code = 0 THEN chars(strip(r4.stdout)) ELSE "unknown"
        build_info == [go_version |-> go_version, git_commit |-> git_commit,
                       git_branch |-> git_branch, git_dirty |-> git_dirty,
                       platform |-> host]
        build_info_path == build_dir \o <<"build-info.json">>
        written == IF Exists(fs, build_dir) THEN w ELSE "openfail"
        Gbi(res, f, calls, info) ==
            [res |-> res, fs |-> f, calls |-> calls, cmd |-> calls[Len(calls)].cmd,
             info |-> info]
    IN  IF r1.kind # "ret" THEN Gbi(r1.kind, fs, <<c1>>, NoInfo)
        ELSE IF r2.kind # "ret" THEN Gbi(r2.kind, fs, <<c1, c2>>, NoInfo)
        ELSE IF r3.kind # "ret" THEN Gbi(r3.kind, fs, <<c1, c2, c3>>, NoInfo)
        ELSE IF r4.kind # "ret" THEN Gbi(r4.kind, fs, <<c1, c2, c3, c4>>, NoInfo)
        ELSE IF written = "openfail" THEN Gbi("exc", fs, <<c1, c2, c3, c4>>, NoInfo)
        ELSE IF written = "writefail"
             THEN Gbi("exc", WriteFile(fs, build_info_path, "file"), <<c1, c2, c3, c4>>,
                      NoInfo)
        ELSE Gbi("ok", WriteFile(fs, build_info_path, "file"), <<c1, c2, c3, c4>>,
                 build_info)

\* clean: the names rglob(pattern) matches among the file names of the model
test_artifacts == <<"coverage.out", "coverage.html", "coverage.txt",
                    "*.test", "*.db", "*.sqlite", "*.sqlite3">>

fnmatch(name, pattern) ==
    \/ name = pattern
    \/ pattern = "*.db" /\ name \in {"shoal.db"}

\* clean that calls shutil.rmtree without asking whether the directory exists
clean_no_exists_test(host, fs) ==
    LET fs1 == Rmtree(fs, build_dir)
        binary_path == root_dir \o <<binary_name(host)>>
        fs2 == RemovePaths(fs1, {binary_path})
        matched == {q \in DOMAIN fs2 :
                      /\ q # << >>
                      /\ fs2[q] # "dir"
                      /\ \E i \in 1..Len(test_artifacts) : fnmatch(q[Len(q)], test_artifacts[i])}
    IN  Op(IF Exists(fs, build_dir) THEN "ok" ELSE "exc", RemovePaths(fs2, matched), << >>)

clean(host, fs) ==
    LET fs1 == IF Exists(fs, build_dir) THEN Rmtree(fs, build_dir) ELSE fs
        binary_path == root_dir \o <<binary_name(host)>>
        fs2 == IF Exists(fs1, binary_path) THEN RemovePaths(fs1, {binary_path}) ELSE fs1
        matched == {q \in DOMAIN fs2 :
                      /\ q # << >>
                      /\ fs2[q] # "dir"
                      /\ \E i \in 1..Len(test_artifacts) : fnmatch(q[Len(q)], test_artifacts[i])}
    IN  Op("ok", RemovePaths(fs2, matched), << >>)

(***************************************************************************)
(* main(): arguments and dispatch.                                         *)
(***************************************************************************)
Commands == {"build", "test", "clean", "fmt", "lint", "coverage", "deps",
             "validate", "build-all"}

\* --platform as typed: tokens, "/" being the separator; << >> is no
\* --platform (or an empty one, which `if args.platform` treats alike)
\* sys.argv[1:] without the options: no subcommand, or one of the choices
CommandLines == {<< >>} \cup {<<c>> : c \in Commands}

\* add_argument("command", nargs="?", default="validate", choices=[...])
parse_command(words) == IF words = << >> THEN "validate" ELSE words[1]

PlatformArgs == { << >>,
                  <<"windows", "/", "amd64">>,
                  <<"plan9", "/", "386">>,
                  <<"linux">> }

\* args.platform.split("/")
RECURSIVE split(_)
split(s) ==
    IF s = << >> THEN <<"">>
    ELSE IF Head(s) = "/" THEN <<"">> \o split(Tail(s))
    ELSE LET rest == split(Tail(s)) IN <<Head(s) \o Head(rest)>> \o Tail(rest)

\* the steps list with the security scan moved behind the build
validate_steps_build_first == <<"Prerequisites", "Dependencies", "Format", "Lint", "Tests",
                                "Build", "Security">>

\* validate: the names of the steps list
validate_steps == <<"Prerequisites", "Dependencies", "Format", "Lint", "Tests",
                    "Security", "Build">>

\* the operations each subcommand calls, in the order of its `and` chain
Chain(c, a) ==
    CASE c = "clean"     -> <<"Clean">>
      [] c = "deps"      -> <<"Prerequisites", "Dependencies">>
      [] c = "fmt"       -> <<"Prerequisites", "Format">>
      [] c = "lint"      -> <<"Prerequisites", "Lint">>
      [] c = "test"      -> <<"Prerequisites", "Dependencies", "Tests">>
      [] c = "coverage"  -> <<"Prerequisites", "Dependencies", "Tests">>
      [] c = "build"     -> IF a # << >>
                            THEN <<"Prerequisites", "Dependencies", "BuildForPlatform">>
                            ELSE <<"Prerequisites", "Dependencies", "Build">>
      [] c = "build-all" -> <<"Prerequisites", "Dependencies", "BuildAll">>
      [] c = "validate"  -> validate_steps

\* validate passes with_coverage=True, coverage too, test does not
with_coverage(c) == c \in {"validate", "coverage"}

\* validate_step without the `return False` of a step that returned False
validate_step_no_stop(step_name, res) ==
    CASE res = "ok"   -> [next |-> "continue", failed |-> "none"]
      [] res = "fail" -> [next |-> "continue", failed |-> step_name]
      [] res = "exc"  -> [next |-> "return_false", failed |-> step_name]
      [] res = "int"  -> [next |-> "propagate_int", failed |-> "none"]

\* validate_step without the except clause
validate_step_no_catch(step_name, res) ==
    CASE res = "ok"   -> [next |-> "continue", failed |-> "none"]
      [] res = "fail" -> [next |-> "return_false", failed |-> step_name]
      [] res = "exc"  -> [next |-> "propagate_exc", failed |-> "none"]
      [] res = "int"  -> [next |-> "propagate_int", failed |-> "none"]

\* validate_step with a bare except, which catches the KeyboardInterrupt too
validate_step_bare_except(step_name, res) ==
    CASE res = "ok"   -> [next |-> "continue", failed |-> "none"]
      [] res = "fail" -> [next |-> "return_false", failed |-> step_name]
      [] res = "exc"  -> [next |-> "return_false", failed |-> step_name]
      [] res = "int"  -> [next |-> "return_false", failed |-> step_name]

\* validate, the body of the loop: what happens once step_func() has ended
validate_step(step_name, res) ==
    CASE res = "ok"   -> [next |-> "continue", failed |-> "none"]
      [] res = "fail" -> [next |-> "return_false", failed |-> step_name]
      [] res = "exc"  -> [next |-> "return_false", failed |-> step_name]
      [] res = "int"  -> [next |-> "propagate_int", failed |-> "none"]

\* validate_next with generate_build_info in a finally clause of the loop
validate_next_finally(next, last) ==
    IF next = "continue" /\ ~last THEN "steps" ELSE "buildinfo"

\* validate: where control goes after a step; generate_build_info comes
\* after the loop has run to its end
validate_next(next, last) ==
    IF next = "continue" THEN (IF last THEN "buildinfo" ELSE "steps") ELSE "summary"

\* validate, after the loop: generate_build_info() is called outside any try
validate_tail(res) ==
    CASE res = "ok"  -> "return_true"
      [] res = "exc" -> "propagate_exc"
      [] res = "int" -> "propagate_int"

\* and_chain that goes on after an operation has returned False
and_chain_no_short_circuit(res) ==
    CASE res = "ok"   -> [next |-> "continue", failed |-> "none"]
      [] res = "fail" -> [next |-> "continue", failed |-> "none"]
      [] res = "exc"  -> [next |-> "propagate_exc", failed |-> "none"]
      [] res = "int"  -> [next |-> "propagate_int", failed |-> "none"]

\* main: a() and b() and c()
and_chain(res) ==
    CASE res = "ok"   -> [next |-> "continue", failed |-> "none"]
      [] res = "fail" -> [next |-> "return_false", failed |-> "none"]
      [] res = "exc"  -> [next |-> "propagate_exc", failed |-> "none"]
      [] res = "int"  -> [next |-> "propagate_int", failed |-> "none"]

and_chain_next(next, last) ==
    IF next = "continue" /\ ~last THEN "steps" ELSE "summary"

\* print_summary that shows SUCCESS whatever the run did
summary_status_always_success(ok) == "SUCCESS"

\* print_summary: status
summary_status(ok) == IF ok THEN "SUCCESS" ELSE "FAILED"

\* sys.exit(success): True exits with 1 and False with 0
exit_code_of_bool(ok) == IF ok THEN 1 ELSE 0

\* sys.exit(0 if success else 1)
exit_code(ok) == IF ok THEN 0 ELSE 1

\* compiled platform binaries in the filesystem, and those of the matrix
ArtifactFiles(f) == {p \in DOMAIN f : f[p] \notin {"dir", "file"}}

MatrixArtifacts(f) == {p \in DOMAIN f : f[p] \in SupportedIds}

(***************************************************************************)
(* State.                                                                  *)
(***************************************************************************)
VARIABLES
    pc,               \* "idle", "steps", "buildinfo", "summary", "exited"
    command,          \* args.command
    platform,         \* args.platform
    chain,            \* the operations the subcommand calls
    invoked,          \* the operations called so far in this run, in order
    returned,         \* how each of them ended (Results)
    failedStep,       \* the step validate has reported as failed, or "none"
    validateOutcome,  \* "none", "true", "false", "raised"
    interrupted,      \* main has caught a KeyboardInterrupt
    success,          \* main: success
    exitCode,         \* the exit code of the process, -1 while it runs
    summary,          \* the summaries printed in this run (their status)
    attempted,        \* build_all_platforms: targets built so far, in order
    results,          \* build_all_platforms: how each of these builds ended
    all_ok,           \* build_all_platforms: all_ok
    cleanStart,       \* no matrix artifact existed when this run started
    build_info,       \* the dict generate_build_info returned
    lastSpawn,        \* the last subprocess spawned: command and environment
    platform_env,     \* build_for_platform: env, the environment it prepared last
    environ,          \* os.environ
    host,             \* platform.system()
    runs,             \* the runs of the script started so far
    argv,             \* the subcommand as typed: << >> when none was given
    prevClean,        \* the run before this one was a clean that succeeded
    op,               \* the operation applied on its own, or "none"
    trace,            \* the calls of run_command that operation made
    opRes,            \* how that operation ended
    fs                \* the files below root_dir

vars == <<pc, command, platform, chain, invoked, returned, failedStep,
          validateOutcome, interrupted, success, exitCode, summary, attempted,
          results, all_ok, cleanStart, build_info, lastSpawn, platform_env, environ,
          host, runs, argv, prevClean, op, trace, opRes, fs>>

NoSpawn == [cmd |-> << >>, env |-> [PATH |-> ""]]

\* build_for_platform has not been called in this run
NoEnv == [PATH |-> ""]

\* the runs of the script the model follows, one after the other
MaxRuns == 2

\* Where the script is run: a directory without go.mod, a fresh checkout, a
\* checkout on Windows in which the server has been built and run by hand.
Configurations ==
    { [host |-> "Linux", environ |-> [PATH |-> "/usr/bin"], fs |-> NoFiles],
      [host |-> "Linux", environ |-> [PATH |-> "/usr/bin"],
       fs |-> [p \in {<<"go.mod">>} |-> "file"]],
      [host |-> "Windows",
       environ |-> [PATH |-> "/usr/bin", GOOS |-> "linux", GOARCH |-> "amd64"],
       fs |-> [p \in {<<"go.mod">>, <<"shoal.exe">>, <<"shoal.db">>} |-> "file"]] }

Boot(configurations) ==
    /\ pc = "idle"
    /\ command = "validate"
    /\ platform = << >>
    /\ chain = << >>
    /\ invoked = << >>
    /\ returned = << >>
    /\ failedStep = "none"
    /\ validateOutcome = "none"
    /\ interrupted = FALSE
    /\ success = FALSE
    /\ exitCode = -1
    /\ summary = << >>
    /\ attempted = << >>
    /\ results = << >>
    /\ all_ok = TRUE
    /\ cleanStart = TRUE
    /\ build_info = NoInfo
    /\ lastSpawn = NoSpawn
    /\ platform_env = NoEnv
    /\ runs = 0
    /\ argv = << >>
    /\ prevClean = FALSE
    /\ op = "none"
    /\ trace = << >>
    /\ opRes = "none"
    /\ \E c \in configurations :
         /\ environ = c.environ
         /\ host = c.host
         /\ fs = c.fs

Init == Boot(Configurations)

(***************************************************************************)
(* Actions.                                                                *)
(***************************************************************************)
\* main up to the first operation: parse_args, BuildRunner(), the dispatch on
\* args.command.  A --platform that does not split in two ends the process
\* with sys.exit(1) inside the try (SystemExit is no Exception).
Start ==
    /\ pc \in {"idle", "exited"}
    /\ runs < MaxRuns
    /\ runs' = runs + 1
    /\ \E words \in CommandLines, a \in PlatformArgs :
         LET c == parse_command(words)
         IN  /\ c # "build" => a = << >>
             /\ argv' = words
             /\ command' = c
             /\ platform' = a
             /\ IF c = "build" /\ a # << >> /\ Len(split(a)) # 2
                THEN /\ pc' = "exited"
                     /\ chain' = << >>
                     /\ exitCode' = 1
                ELSE /\ pc' = "steps"
                     /\ chain' = Chain(c, a)
                     /\ exitCode' = -1
    /\ prevClean' = (pc = "exited" /\ command = "clean" /\ exitCode = 0)
    /\ invoked' = << >>
    /\ returned' = << >>
    /\ failedStep' = "none"
    /\ validateOutcome' = "none"
    /\ interrupted' = FALSE
    /\ success' = FALSE
    /\ summary' = << >>
    /\ attempted' = << >>
    /\ results' = << >>
    /\ all_ok' = TRUE
    /\ cleanStart' = (MatrixArtifacts(fs) = {})
    /\ build_info' = NoInfo
    /\ lastSpawn' = NoSpawn
    /\ platform_env' = NoEnv
    /\ UNCHANGED <<environ, host, op, trace, opRes, fs>>

\* the operation the dispatcher (or validate) is about to call
Active(name) ==
    /\ pc = "steps"
    /\ Len(invoked) < Len(chain)
    /\ chain[Len(invoked) + 1] = name

\* The operation `name` has ended as r: the rest of the loop body of validate,
\* or of the `and` chain and the except clauses of main.
StepDone(name, r) ==
    LET inv == Append(invoked, name)
        last == Len(inv) = Len(chain)
        c == IF command = "validate" THEN validate_step(name, r.res) ELSE and_chain(r.res)
        to == IF command = "validate" THEN validate_next(c.next, last)
              ELSE and_chain_next(c.next, last)
    IN  /\ invoked' = inv
        /\ returned' = Append(returned, r.res)
        /\ failedStep' = c.failed
        /\ pc' = to
        /\ validateOutcome' =
             IF command # "validate" \/ c.next = "continue" THEN "none"
             ELSE IF c.next = "return_false" THEN "false" ELSE "raised"
        /\ interrupted' = (c.next = "propagate_int")
        /\ success' = (command # "validate" /\ c.next = "continue" /\ last)
        /\ fs' = r.fs
        /\ lastSpawn' = IF r.cmd = << >> THEN lastSpawn
                        ELSE [cmd |-> r.cmd, env |-> subprocess_env(environ)]
        /\ UNCHANGED <<command, platform, chain, exitCode, summary, cleanStart,
                       build_info, host, runs, argv, prevClean, op, trace, opRes>>

CheckPrerequisites ==
    /\ Active("Prerequisites")
    /\ \E o \in ProcOutcomes : StepDone("Prerequisites", check_prerequisites(o, fs))
    /\ UNCHANGED <<attempted, results, all_ok, environ, platform_env>>

DownloadDependencies ==
    /\ Active("Dependencies")
    /\ \E o1, o2 \in ProcOutcomes :
         StepDone("Dependencies", download_dependencies(o1, o2, fs))
    /\ UNCHANGED <<attempted, results, all_ok, environ, platform_env>>

FormatCode ==
    /\ Active("Format")
    /\ \E o \in ProcOutcomes : StepDone("Format", format_code(o, fs))
    /\ UNCHANGED <<attempted, results, all_ok, environ, platform_env>>

LintCode ==
    /\ Active("Lint")
    /\ \E o1, o2 \in ProcOutcomes : StepDone("Lint", lint_code(o1, o2, fs))
    /\ UNCHANGED <<attempted, results, all_ok, environ, platform_env>>

RunTests ==
    /\ Active("Tests")
    /\ \E o1, o2, o3 \in ProcOutcomes, wroteProfile, wroteHtml \in BOOLEAN :
         StepDone("Tests", run_tests(with_coverage(command), o1, wroteProfile,
                                     o2, o3, wroteHtml, fs))
    /\ UNCHANGED <<attempted, results, all_ok, environ, platform_env>>

RunSecurityChecks ==
    /\ Active("Security")
    /\ \E o1, o2 \in ProcOutcomes : StepDone("Security", run_security_checks(o1, o2, fs))
    /\ UNCHANGED <<attempted, results, all_ok, environ, platform_env>>

BuildBinary ==
    /\ Active("Build")
    /\ \E o1, o2 \in ProcOutcomes, wrote \in BOOLEAN :
         StepDone("Build", build_binary(host, o1, wrote, o2, fs))
    /\ UNCHANGED <<attempted, results, all_ok, environ, platform_env>>

Clean ==
    /\ Active("Clean")
    /\ StepDone("Clean", clean(host, fs))
    /\ UNCHANGED <<attempted, results, all_ok, environ, platform_env>>

\* build --platform os/arch
BuildForPlatform ==
    /\ Active("BuildForPlatform")
    /\ \E o \in ProcOutcomes, wrote \in BOOLEAN :
         LET parts == split(platform)
             r == build_for_platform(parts[1], parts[2], o, wrote, fs, environ)
         IN  /\ StepDone("BuildForPlatform", Op(r.res, r.fs, r.calls))
             /\ attempted' = Append(attempted, <<parts[1], parts[2]>>)
             /\ results' = Append(results, r.res)
             /\ environ' = r.environ
             /\ platform_env' = r.env
    /\ UNCHANGED all_ok

\* build_all_platforms: one turn of the loop over SUPPORTED_PLATFORMS; after
\* the last turn the function returns all_ok, and an exception of
\* build_for_platform leaves the loop and the function.
BuildAllPlatforms ==
    /\ Active("BuildAll")
    /\ Len(attempted) < Len(SUPPORTED_PLATFORMS)
    /\ \E o \in ProcOutcomes, wrote \in BOOLEAN :
         LET t == SUPPORTED_PLATFORMS[Len(attempted) + 1]
             r == build_for_platform(t[1], t[2], o, wrote, fs, environ)
             ok == accumulate(all_ok, r.res = "ok")
             over == Len(attempted) + 1 = Len(SUPPORTED_PLATFORMS)
         IN  /\ attempted' = Append(attempted, t)
             /\ results' = Append(results, r.res)
             /\ environ' = r.environ
             /\ platform_env' = r.env
             /\ IF r.res \in {"exc", "int"}
                THEN /\ all_ok' = all_ok
                     /\ StepDone("BuildAll", Op(r.res, r.fs, r.calls))
                ELSE IF over
                THEN /\ all_ok' = ok
                     /\ StepDone("BuildAll", Op(IF ok THEN "ok" ELSE "fail", r.fs, r.calls))
                ELSE /\ all_ok' = ok
                     /\ fs' = r.fs
                     /\ lastSpawn' = [cmd |-> r.cmd, env |-> subprocess_env(environ)]
                     /\ UNCHANGED <<pc, command, platform, chain, invoked, returned,
                                    failedStep, validateOutcome, interrupted, success,
                                    exitCode, summary, cleanStart, build_info,
                                    host, runs, argv, prevClean, op, trace, opRes>>

\* validate after its loop: generate_build_info, then return True
GenerateBuildInfo ==
    /\ pc = "buildinfo"
    /\ \E p1 \in Probes(CommitOuts), p2 \in Probes(BranchOuts),
          p3 \in Probes(StatusOuts), p4 \in Probes(GoOuts), w \in WriteOutcomes :
         LET r == generate_build_info(host, p1, p2, p3, p4, w, fs)
             t == validate_tail(r.res)
         IN  /\ invoked' = Append(invoked, "BuildInfo")
             /\ returned' = Append(returned, r.res)
             /\ build_info' = r.info
             /\ fs' = r.fs
             /\ lastSpawn' = [cmd |-> r.cmd, env |-> subprocess_env(environ)]
             /\ validateOutcome' = IF t = "return_true" THEN "true" ELSE "raised"
             /\ success' = (t = "return_true")
             /\ interrupted' = (t = "propagate_int")
    /\ pc' = "summary"
    /\ UNCHANGED <<command, platform, chain, failedStep, exitCode, summary, attempted,
                   results, all_ok, cleanStart, platform_env, environ, host, runs,
                   argv, prevClean, op, trace, opRes>>

\* main after the try: print_summary(success, elapsed_time), sys.exit
Finish ==
    /\ pc = "summary"
    /\ summary' = Append(summary, summary_status(success))
    /\ exitCode' = exit_code(success)
    /\ pc' = "exited"
    /\ UNCHANGED <<command, platform, chain, invoked, returned, failedStep,
                   validateOutcome, interrupted, success, attempted, results, all_ok,
                   cleanStart, build_info, lastSpawn, platform_env, environ, host, runs,
                   argv, prevClean, op, trace, opRes, fs>>

Next ==
    \/ Start
    \/ CheckPrerequisites
    \/ DownloadDependencies
    \/ FormatCode
    \/ LintCode
    \/ RunTests
    \/ RunSecurityChecks
    \/ BuildBinary
    \/ Clean
    \/ BuildForPlatform
    \/ BuildAllPlatforms
    \/ GenerateBuildInfo
    \/ Finish

Spec == Init /\ [][Next]_vars

\* Every external command terminates, so the operation that waits for it
\* ends and the script goes on: a step of the script that can be taken is
\* taken.
LiveSpec == Init /\ [][Next]_vars /\ WF_vars(Next)

(***************************************************************************)
(* The operations of BuildRunner applied on their own: one operation, on   *)
(* one of the directories below, with every outcome of the commands it     *)
(* runs.  trace keeps the calls of run_command the operation made.         *)
(***************************************************************************)
\* a fresh checkout, and a checkout on Windows that has been built and tested
OpConfigurations ==
    { [host |-> "Linux", environ |-> [PATH |-> "/usr/bin"],
       fs |-> [p \in {<<"go.mod">>} |-> "file"]],
      [host |-> "Windows", environ |-> [PATH |-> "/usr/bin"],
       fs |-> [p \in {<<"go.mod">>, <<"build">>, <<"build", "shoal.exe">>,
                      <<"coverage.out">>} |->
                 IF p = <<"build">> THEN "dir" ELSE "file"]] }

OpInit == Boot(OpConfigurations)

\* the operation `name` has been called and has ended as r
Applied(name, r) ==
    /\ op = "none"
    /\ op' = name
    /\ trace' = r.calls
    /\ opRes' = r.res
    /\ fs' = r.fs
    /\ UNCHANGED <<pc, command, platform, chain, invoked, returned, failedStep,
                   validateOutcome, interrupted, success, exitCode, summary, attempted,
                   results, all_ok, cleanStart, lastSpawn, host, runs,
                   argv, prevClean>>

OpRunCommand ==
    \E cmd \in {<<"go", "version">>, <<"gosec", "./...">>}, check \in BOOLEAN,
       o \in ProcOutcomes, out \in {<< >>, GoVersionOut} :
         LET c == Call(cmd, check, o, out)
         IN  /\ Applied("run_command", Op(c.ret.kind, fs, <<c>>))
             /\ UNCHANGED <<build_info, environ, platform_env>>

OpCheckPrerequisites ==
    /\ \E o \in ProcOutcomes : Applied("check_prerequisites", check_prerequisites(o, fs))
    /\ UNCHANGED <<build_info, environ, platform_env>>

OpDownloadDependencies ==
    /\ \E o1, o2 \in ProcOutcomes :
         Applied("download_dependencies", download_dependencies(o1, o2, fs))
    /\ UNCHANGED <<build_info, environ, platform_env>>

OpFormatCode ==
    /\ \E o \in ProcOutcomes : Applied("format_code", format_code(o, fs))
    /\ UNCHANGED <<build_info, environ, platform_env>>

OpLintCode ==
    /\ \E o1, o2 \in ProcOutcomes : Applied("lint_code", lint_code(o1, o2, fs))
    /\ UNCHANGED <<build_info, environ, platform_env>>

OpRunTests ==
    /\ \E cov \in BOOLEAN, o1, o2, o3 \in ProcOutcomes, wroteProfile, wroteHtml \in BOOLEAN :
         Applied("run_tests", run_tests(cov, o1, wroteProfile, o2, o3, wroteHtml, fs))
    /\ UNCHANGED <<build_info, environ, platform_env>>

OpBuildBinary ==
    /\ \E o1, o2 \in ProcOutcomes, wrote \in BOOLEAN :
         Applied("build_binary", build_binary(host, o1, wrote, o2, fs))
    /\ UNCHANGED <<build_info, environ, platform_env>>

OpRunSecurityChecks ==
    /\ \E o1, o2 \in ProcOutcomes :
         Applied("run_security_checks", run_security_checks(o1, o2, fs))
    /\ UNCHANGED <<build_info, environ, platform_env>>

OpBuildForPlatform ==
    /\ \E i \in 1..Len(SUPPORTED_PLATFORMS), o \in ProcOutcomes, wrote \in BOOLEAN :
         LET t == SUPPORTED_PLATFORMS[i]
             r == build_for_platform(t[1], t[2], o, wrote, fs, environ)
         IN  /\ Applied("build_for_platform", Op(r.res, r.fs, r.calls))
             /\ environ' = r.environ
             /\ platform_env' = r.env
    /\ UNCHANGED build_info

OpGenerateBuildInfo ==
    \E p1 \in Probes(CommitOuts), p2 \in Probes(BranchOuts),
       p3 \in Probes(StatusOuts), p4 \in Probes(GoOuts), w \in WriteOutcomes :
         LET r == generate_build_info(host, p1, p2, p3, p4, w, fs)
         IN  /\ Applied("generate_build_info", r)
             /\ build_info' = r.info
             /\ UNCHANGED <<environ, platform_env>>

OpNext ==
    \/ OpRunCommand
    \/ OpCheckPrerequisites
    \/ OpDownloadDependencies
    \/ OpFormatCode
    \/ OpLintCode
    \/ OpRunTests
    \/ OpBuildBinary
    \/ OpRunSecurityChecks
    \/ OpBuildForPlatform
    \/ OpGenerateBuildInfo

OpSpec == OpInit /\ [][OpNext]_vars

(***************************************************************************)
(* Properties.                                                             *)
(***************************************************************************)
InValidate == command = "validate" /\ pc # "idle"

\* the positions of the run at which the operation called returned False
FirstFalse(k) ==
    /\ k \in 1..Len(returned)
    /\ returned[k] = "fail"
    /\ \A j \in 1..(k - 1) : returned[j] # "fail"

AllSevenOk ==
    /\ Len(returned) >= Len(validate_steps)
    /\ \A j \in 1..Len(validate_steps) : invoked[j] = validate_steps[j] /\ returned[j] = "ok"

\* C1: fail-fast.  In a run of validate, when the step at position k is the
\* first whose action returns False, validate reports failure, the step it
\* reports as failed is the step at position k, and no step after position k
\* is invoked (the run fails, and exits with 1).
C1_FailFast ==
    InValidate =>
        \A k \in 1..Len(validate_steps) :
            FirstFalse(k) =>
                /\ validateOutcome = "false"
                /\ failedStep = validate_steps[k]
                /\ invoked = SubSeq(validate_steps, 1, k)
                /\ ~success
                /\ pc \in {"summary", "exited"}
                /\ pc = "exited" => exitCode = 1

C1_Witness ==
    /\ InValidate
    /\ pc = "exited"
    /\ FirstFalse(4)
    /\ failedStep = "Lint"

\* C3: fault containment.  When the action of a step of validate raises an
\* exception, validate returns False with that step reported as failed, no
\* later step is invoked, and the exception does not leave validate.
C3_FaultContained ==
    InValidate =>
        \A k \in 1..Len(validate_steps) :
            (k <= Len(returned) /\ returned[k] = "exc") =>
                /\ validateOutcome = "false"
                /\ failedStep = validate_steps[k]
                /\ invoked = SubSeq(validate_steps, 1, k)
                /\ pc \in {"summary", "exited"}

C3_Witness ==
    /\ InValidate
    /\ pc = "exited"
    /\ Len(returned) = 5
    /\ returned[5] = "exc"
    /\ validateOutcome = "false"
    /\ exitCode = 1

\* C2: the outcome of the pipeline is successful if and only if every step
\* returned success.  In a run of validate that has ended (and that the user
\* did not interrupt): validate has reported success, with no failed step,
\* and the process has exited with 0, exactly when all seven steps returned
\* success.
C2_SuccessIffAllStepsOk ==
    (InValidate /\ pc = "exited" /\ ~interrupted) =>
        ((validateOutcome = "true" /\ failedStep = "none" /\ exitCode = 0) <=> AllSevenOk)

\* C4: generate_build_info is invoked only after all seven steps of validate
\* have returned success in the same run, whatever the subcommand, and never
\* in a run in which validate has reported a failed step.
C4_BuildInfoOnlyAfterSuccess ==
    /\ pc = "buildinfo" => (command = "validate" /\ AllSevenOk /\ Len(invoked) = 7)
    /\ \A i \in 1..Len(invoked) :
         invoked[i] = "BuildInfo" =>
            /\ command = "validate"
            /\ i = Len(validate_steps) + 1
            /\ AllSevenOk
            /\ failedStep = "none"
            /\ validateOutcome # "false"

C4_Witness ==
    /\ pc = "exited"
    /\ command = "validate"
    /\ Len(invoked) = 8
    /\ invoked[8] = "BuildInfo"
    /\ returned[8] = "ok"
    /\ Exists(fs, build_dir \o <<"build-info.json">>)
    /\ build_info.git_commit = "a1b2c3d4"

\* C5: the build-info recorder never fails the pipeline.  Once all seven
\* steps of validate have succeeded, a failure inside generate_build_info (a
\* probe that fails, a write of the record that fails) neither makes the run
\* fail nor leaves validate as an exception: when generate_build_info has
\* ended, not interrupted by the user, validate has returned True.
C5_RecorderNeverFails ==
    (InValidate /\ AllSevenOk /\ Len(returned) = 8 /\ returned[8] # "int") =>
        /\ validateOutcome = "true"
        /\ success
        /\ pc = "exited" => exitCode = 0

\* build_all_platforms has ended (returned or been left by an exception)
MatrixEnded == command = "build-all" /\ pc # "idle" /\ Len(invoked) = 3

MatrixReturned == MatrixEnded /\ returned[3] \in {"ok", "fail"}

Successes == {i \in 1..Len(results) : results[i] = "ok"}

AllTargetsOk ==
    /\ attempted = SUPPORTED_PLATFORMS
    /\ \A i \in 1..Len(SUPPORTED_PLATFORMS) : results[i] = "ok"

\* C6: the matrix build does not fail fast.  When build_all_platforms has
\* ended (and the user did not interrupt it), every declared target has been
\* attempted exactly once, in the order of declaration, however the builds
\* of the single targets ended.
C6_NoFailFast ==
    (MatrixEnded /\ ~interrupted) => attempted = SUPPORTED_PLATFORMS

\* C7: the aggregate result of build_all_platforms is success if and only if
\* the build of every declared target returned success; one failed target
\* makes the aggregate (and the run) fail even though the others succeeded.
C7_AggregateIsConjunction ==
    MatrixEnded =>
        /\ returned[3] = "ok" <=> AllTargetsOk
        /\ success <=> AllTargetsOk
        /\ pc = "exited" => (exitCode = 0 <=> AllTargetsOk)

C7_Witness ==
    /\ MatrixReturned
    /\ pc = "exited"
    /\ results = <<"ok", "fail", "ok", "ok", "ok">>
    /\ returned[3] = "fail"
    /\ exitCode = 1

\* C8 as claimed: after build_all_platforms has returned, the number of
\* artifact files of the matrix that are present equals the number of targets
\* whose build returned success, whatever the build directory held before.
C8_ArtifactsEqualSuccesses ==
    MatrixReturned => Cardinality(MatrixArtifacts(fs)) = Cardinality(Successes)

\* C8 as amended: after build_all_platforms has returned, every target whose
\* build returned success has an artifact file, so that the number of artifact
\* files present is at least the number of successes, and the two numbers are
\* equal when the build directory held no artifact of the matrix when the run
\* started (an artifact an earlier run left for a target that fails now stays).
C8_ArtifactsEqualSuccessesFromClean ==
    MatrixReturned =>
        /\ \A i \in Successes : \E p \in MatrixArtifacts(fs) : fs[p] = TargetId(attempted[i][1], attempted[i][2])
        /\ Cardinality(MatrixArtifacts(fs)) >= Cardinality(Successes)
        /\ cleanStart => Cardinality(MatrixArtifacts(fs)) = Cardinality(Successes)

C8_Witness ==
    /\ MatrixReturned
    /\ cleanStart
    /\ results = <<"ok", "fail", "fail", "fail", "ok">>
    /\ Cardinality(MatrixArtifacts(fs)) = 2

\* C9: the compiler of build_for_platform(os, arch) is spawned with the
\* environment of the script with GOOS = os and GOARCH = arch put on top of
\* it: the overrides are there and the inherited variables are kept.
C9_CompilerEnvironment ==
    (attempted # << >> /\ Len(lastSpawn.cmd) = 9 /\ lastSpawn.cmd[2] = "build") =>
        LET t == attempted[Len(attempted)]
        IN  lastSpawn.env = [x \in DOMAIN environ \cup {"GOOS", "GOARCH"} |->
                                IF x = "GOOS" THEN t[1]
                                ELSE IF x = "GOARCH" THEN t[2]
                                ELSE environ[x]]

\* the path the specification gives the artifact of a target
ExpectedArtifact(id) ==
    CASE id = "linux/amd64"   -> <<"build", "shoal-linux-amd64">>
      [] id = "windows/amd64" -> <<"build", "shoal-windows-amd64.exe">>
      [] id = "darwin/amd64"  -> <<"build", "shoal-darwin-amd64">>
      [] id = "linux/arm64"   -> <<"build", "shoal-linux-arm64">>
      [] id = "darwin/arm64"  -> <<"build", "shoal-darwin-arm64">>
      [] id = "plan9/386"     -> <<"build", "shoal-plan9-386">>

\* C10: a target whose build returned success has exactly one artifact file,
\* at build/shoal-<os>-<arch>, with .exe exactly when os is windows; every
\* artifact file lies at the path of its target, and after any number of runs
\* no target has more than one artifact file.
C10_OneArtifactPerTarget ==
    /\ \A i \in 1..Len(attempted) :
         results[i] = "ok" =>
            LET id == TargetId(attempted[i][1], attempted[i][2])
            IN  {p \in DOMAIN fs : fs[p] = id} = {ExpectedArtifact(id)}
    /\ \A p \in ArtifactFiles(fs) : p = ExpectedArtifact(fs[p])
    /\ \A p, q \in ArtifactFiles(fs) : fs[p] = fs[q] => p = q

C10_Witness ==
    /\ MatrixReturned
    /\ runs = 2
    /\ ~cleanStart
    /\ AllTargetsOk
    /\ Cardinality(ArtifactFiles(fs)) = 5

\* every operation the run has called returned True, and none is left to call
RunSucceeded ==
    /\ chain # << >>
    /\ Len(returned) = Len(chain) + (IF command = "validate" THEN 1 ELSE 0)
    /\ \A k \in 1..Len(returned) : returned[k] = "ok"

\* C12: the exit code of the process is 0 exactly when the run succeeded and
\* 1 on every failure (an operation that returns False, an exception, an
\* interrupt of the user, a --platform that cannot be split); the dispatcher
\* produces no other exit code, and none before the run has ended.
C12_ExitCode ==
    /\ pc = "exited" =>
          /\ exitCode \in {0, 1}
          /\ exitCode = 0 <=> RunSucceeded
          /\ (\E k \in 1..Len(returned) : returned[k] \in {"fail", "exc", "int"}) => exitCode = 1
          /\ chain = << >> => exitCode = 1
    /\ pc \notin {"exited", "idle"} => exitCode = -1

C12_Witness ==
    /\ pc = "exited"
    /\ command = "test"
    /\ returned = <<"ok", "ok", "int">>
    /\ interrupted
    /\ exitCode = 1

\* C13: an interrupt of the user that arrives while an operation or a target
\* of the matrix runs is caught once, by main: the interrupted operation is
\* the last one of the run (no step and no target is started after it), the
\* run fails and exits with 1, and the artifacts the run had produced are
\* still there.
C13_InterruptAtTopLevel ==
    /\ \A k \in 1..Len(returned) :
         returned[k] = "int" => (k = Len(returned) /\ interrupted)
    /\ \A i \in 1..Len(results) :
         results[i] = "int" => (i = Len(results) /\ interrupted)
    /\ interrupted =>
          /\ returned # << >> /\ returned[Len(returned)] = "int"
          /\ pc \in {"summary", "exited"}
          /\ ~success
          /\ validateOutcome \in {"none", "raised"}
          /\ pc = "exited" => exitCode = 1
          /\ \A i \in 1..Len(results) :
               results[i] = "ok" =>
                  Exists(fs, ExpectedArtifact(TargetId(attempted[i][1], attempted[i][2])))
          /\ \A k \in 1..Len(returned) :
               (invoked[k] = "Build" /\ returned[k] = "ok") =>
                  Exists(fs, <<"build", IF host = "Windows" THEN "shoal.exe" ELSE "shoal">>)

C13_Witness ==
    /\ pc = "exited"
    /\ command = "build-all"
    /\ interrupted
    /\ results = <<"ok", "ok", "int">>
    /\ Exists(fs, <<"build", "shoal-windows-amd64.exe">>)
    /\ exitCode = 1

\* the operations the specification gives each subcommand, in order
ExpectedChain(c, a) ==
    CASE c = "deps"      -> <<"Prerequisites", "Dependencies">>
      [] c = "fmt"       -> <<"Prerequisites", "Format">>
      [] c = "lint"      -> <<"Prerequisites", "Lint">>
      [] c = "test"      -> <<"Prerequisites", "Dependencies", "Tests">>
      [] c = "coverage"  -> <<"Prerequisites", "Dependencies", "Tests">>
      [] c = "build-all" -> <<"Prerequisites", "Dependencies", "BuildAll">>
      [] c = "build"     -> <<"Prerequisites", "Dependencies",
                              IF a = << >> THEN "Build" ELSE "BuildForPlatform">>

\* C17: in the subcommands fmt, lint, deps, test, coverage, build and
\* build-all an operation runs only after every operation before it in the
\* chain of the subcommand (the prerequisite check first) has run and returned
\* success; when an operation of the chain fails no later one is invoked and
\* the run fails.
C17_ChainAfterPrerequisites ==
    (pc \notin {"idle"} /\ command \notin {"validate", "clean"}) =>
        /\ Len(invoked) <= Len(ExpectedChain(command, platform))
        /\ invoked = SubSeq(ExpectedChain(command, platform), 1, Len(invoked))
        /\ \A k \in 1..(Len(invoked) - 1) : returned[k] = "ok"
        /\ attempted # << >> => (Len(returned) >= 2 /\ returned[1] = "ok" /\ returned[2] = "ok")
        /\ (\E k \in 1..Len(returned) : returned[k] # "ok") =>
              (pc \in {"summary", "exited"} /\ ~success)

C17_Witness ==
    /\ pc = "exited"
    /\ command = "fmt"
    /\ invoked = <<"Prerequisites">>
    /\ returned = <<"fail">>
    /\ exitCode = 1

\* C18: every target a single-platform build is invoked for, by build-all or
\* by build --platform, is one of linux/amd64, windows/amd64, darwin/amd64,
\* linux/arm64, darwin/arm64, and no (os, arch) pair is declared twice in the
\* matrix.
C18_OnlySupportedTargets ==
    /\ \A i \in 1..Len(attempted) :
         TargetId(attempted[i][1], attempted[i][2]) \in
            {"linux/amd64", "windows/amd64", "darwin/amd64", "linux/arm64", "darwin/arm64"}
    /\ \A i, j \in 1..Len(SUPPORTED_PLATFORMS) :
         SUPPORTED_PLATFORMS[i] = SUPPORTED_PLATFORMS[j] => i = j

\* C14: validate calls its steps in the order prerequisites, dependencies,
\* format, lint, tests with coverage, security scan, build, and the BuildInfo
\* recorder after them: what has been invoked is always a prefix of this
\* order and everything before the last operation invoked has returned
\* success (nothing reordered, repeated or skipped); without a subcommand on
\* the command line the command run is validate.
C14_FixedOrder ==
    LET order == <<"Prerequisites", "Dependencies", "Format", "Lint", "Tests",
                   "Security", "Build", "BuildInfo">>
    IN  /\ (pc # "idle" /\ argv = << >>) => command = "validate"
        /\ (pc # "idle" /\ command = "validate") =>
              /\ Len(invoked) <= Len(order)
              /\ invoked = SubSeq(order, 1, Len(invoked))
              /\ \A k \in 1..(Len(invoked) - 1) : returned[k] = "ok"
              /\ Len(invoked) = 5 =>
                    lastSpawn.cmd \in
                       { <<"go", "test", "-coverprofile=coverage.out", "-v", "./...">>,
                         <<"go", "tool", "cover", "-func=coverage.out">>,
                         <<"go", "tool", "cover", "-html=coverage.out", "-o", "coverage.html">> }

C14_Witness ==
    /\ argv = << >>
    /\ pc = "exited"
    /\ invoked = <<"Prerequisites", "Dependencies", "Format", "Lint", "Tests",
                   "Security", "Build", "BuildInfo">>
    /\ exitCode = 0

\* C15: clean is idempotent.  Whenever clean has run, from whatever files
\* there were, it has returned success; the build directory, the binary at
\* the root and the files matching the test and database patterns are gone;
\* a second clean on what it left succeeds and leaves the same files; and a
\* clean that follows a clean in the next run changes no file.
C15_CleanIdempotent ==
    [][ (command' = "clean" /\ pc = "steps" /\ pc' = "summary") =>
          LET again == clean(host, fs')
          IN  /\ returned' = <<"ok">>
              /\ success'
              /\ ~Exists(fs', build_dir)
              /\ \A q \in DOMAIN fs' : Len(q) = 0 \/ q[1] # "build"
              /\ ~Exists(fs', root_dir \o <<IF host = "Windows" THEN "shoal.exe" ELSE "shoal">>)
              /\ \A q \in DOMAIN fs' \ {<< >>} :
                   q[Len(q)] \notin {"coverage.out", "coverage.html", "coverage.txt", "shoal.db"}
              /\ again.res = "ok"
              /\ again.fs = fs'
              /\ prevClean => fs' = fs ]_vars

C15_Witness ==
    /\ prevClean
    /\ command = "clean"
    /\ pc = "exited"
    /\ exitCode = 0
    /\ host = "Windows"
    /\ ~Exists(fs, <<"shoal.db">>)

\* C11: run_command never raises on a missing executable or on an exit code
\* other than 0, whatever the check flag: a process that ran to its end is
\* returned as (its exit code, its stdout, its stderr), a missing executable
\* as (1, "", "Command not found: " and the name of the executable).  The
\* operation that called it has then ended with True or False, unless
\* another of its calls raised.
C11_RunCommandNeverRaises ==
    /\ \A i \in 1..Len(trace) :
         LET c == trace[i]
         IN  /\ c.o \in {"exit0", "exit1", "exit2", "notfound"} => c.ret.kind = "ret"
             /\ c.o = "exit0" =>
                   (c.ret.code = 0 /\ c.ret.stdout = c.out /\ c.ret.stderr = "")
             /\ c.o = "exit1" =>
                   (c.ret.code = 1 /\ c.ret.stdout = c.out /\ c.ret.stderr = "error")
             /\ c.o = "exit2" =>
                   (c.ret.code = 2 /\ c.ret.stdout = c.out /\ c.ret.stderr = "error")
             /\ c.o = "notfound" =>
                   /\ c.ret.code = 1
                   /\ c.ret.stdout = << >>
                   /\ c.ret.stderr = "Command not found: " \o c.cmd[1]
    /\ (op \notin {"none", "generate_build_info"}
        /\ \A i \in 1..Len(trace) : trace[i].o \in {"exit0", "exit1", "exit2", "notfound"})
          => opRes \in (IF op = "run_command" THEN {"ret"} ELSE {"ok", "fail"})

C11_Witness ==
    /\ op = "run_command"
    /\ Len(trace) = 1
    /\ trace[1].check
    /\ trace[1].o = "notfound"
    /\ trace[1].cmd = <<"gosec", "./...">>
    /\ trace[1].ret = [kind |-> "ret", code |-> 1, stdout |-> << >>,
                       stderr |-> "Command not found: gosec",
                       printed |-> <<"Command not found: gosec">>]

\* the run_command call ended with a returned tuple whose exit code is 0
Exit0(c) == c.ret.kind = "ret" /\ c.ret.code = 0

\* the fields of the BuildInfo record follow from the four probes, each from
\* its own probe alone (the text of a probe is taken without the whitespace
\* around it)
FieldsDegradeIndependently ==
    /\ Len(trace) = 4
    /\ trace[1].cmd = <<"git", "rev-parse", "HEAD">>
    /\ trace[2].cmd = <<"git", "branch", "--show-current">>
    /\ trace[3].cmd = <<"git", "status", "--porcelain">>
    /\ trace[4].cmd = <<"go", "version">>
    /\ build_info.git_commit =
         (IF trace[1].o = "exit0"
          THEN (IF trace[1].out = <<"a", "1", "b", "2", "c", "3", "d", "4", "e", "5", "\n">>
                THEN "a1b2c3d4" ELSE "abc")
          ELSE "unknown")
    /\ build_info.git_branch =
         (IF trace[2].o = "exit0"
          THEN (IF trace[2].out = << >> THEN "" ELSE "main")
          ELSE "unknown")
    /\ build_info.git_dirty = (trace[3].o = "exit0" /\ trace[3].out # << >>)
    /\ build_info.go_version = (IF trace[4].o = "exit0" THEN "go1.22" ELSE "unknown")

\* generate_build_info has returned: what it returned is as above
BuildInfoWhenReturned ==
    (op = "generate_build_info" /\ opRes = "ok") => FieldsDegradeIndependently

\* C16: whatever the four metadata probes do (short of an interrupt of the
\* user), each field of BuildInfo degrades on its own: the commit is the
\* first 8 characters its probe printed, or "unknown" when that probe failed;
\* the branch is what its probe printed, or "unknown"; the tree is dirty
\* exactly when the status probe succeeded and printed something; the
\* toolchain version is "unknown" when its probe failed; and the pipeline
\* still reports success, also when every version-control probe fails.
\* (The build directory exists, as it does when validate gets this far.)
C16_ProbesDegradeIndependently ==
    (op = "generate_build_info"
     /\ Exists(fs, build_dir)
     /\ \A i \in 1..Len(trace) : trace[i].o # "interrupt") =>
        /\ opRes = "ok"
        /\ validate_tail(opRes) = "return_true"
        /\ FieldsDegradeIndependently

\* C19: lint_code holds its own fallback.  It probes golangci-lint; when the
\* probe exits 0 it runs golangci-lint and not go vet, otherwise it runs
\* go vet and not golangci-lint; and it returns True exactly when the tool
\* it ran exited with 0.
C19_LintFallback ==
    op = "lint_code" =>
        /\ trace[1].cmd = <<"golangci-lint", "--version">>
        /\ trace[1].ret.kind = "ret" =>
              /\ Len(trace) = 2
              /\ trace[2].cmd = (IF trace[1].ret.code = 0
                                 THEN <<"golangci-lint", "run">>
                                 ELSE <<"go", "vet", "./...">>)
              /\ opRes = "ok" <=> Exit0(trace[2])
              /\ trace[2].ret.kind = "ret" => opRes \in {"ok", "fail"}

C19_Witness ==
    /\ op = "lint_code"
    /\ Len(trace) = 2
    /\ trace[1].o = "notfound"
    /\ trace[2].cmd = <<"go", "vet", "./...">>
    /\ trace[2].o = "exit2"
    /\ opRes = "fail"

\* C20: run_security_checks skips when there is no scanner.  It probes gosec;
\* when the probe does not exit with 0 the scanner is not run and the step
\* returns True, which lets validate go on to the build, the step after it;
\* when the probe exits 0 the scanner is run and the step returns True
\* exactly when the scan exited with 0.
C20_SecuritySkips ==
    op = "run_security_checks" =>
        /\ trace[1].cmd = <<"gosec", "-version">>
        /\ (trace[1].ret.kind = "ret" /\ trace[1].ret.code # 0) =>
              /\ Len(trace) = 1
              /\ opRes = "ok"
              /\ validate_step("Security", opRes).next = "continue"
              /\ \E k \in 1..(Len(validate_steps) - 1) :
                   validate_steps[k] = "Security" /\ validate_steps[k + 1] = "Build"
        /\ Exit0(trace[1]) =>
              /\ Len(trace) = 2
              /\ trace[2].cmd = <<"gosec", "./...">>
              /\ opRes = "ok" <=> Exit0(trace[2])
              /\ trace[2].ret.kind = "ret" => opRes \in {"ok", "fail"}

C20_Witness ==
    /\ op = "run_security_checks"
    /\ Len(trace) = 1
    /\ trace[1].o = "notfound"
    /\ opRes = "ok"

\* every call of run_command the operation made gave back a tuple
AllReturned == \A i \in 1..Len(trace) : trace[i].ret.kind = "ret"

\* C24: the verdict of build_binary does not depend on the execution test.
\* When its commands have returned, build_binary returns True exactly when
\* the compiler exited with 0 and the binary exists afterwards, and then it
\* has run the binary with -h, whatever exit code that gave (a binary that
\* cannot be found counts as exit code 1).
C24_BuildVerdict ==
    (op = "build_binary" /\ AllReturned) =>
        LET binary == <<"build", IF host = "Windows" THEN "shoal.exe" ELSE "shoal">>
        IN  /\ opRes \in {"ok", "fail"}
            /\ trace[1].cmd[1] = "go" /\ trace[1].cmd[2] = "build"
            /\ opRes = "ok" <=> (Exit0(trace[1]) /\ Exists(fs, binary))
            /\ opRes = "ok" =>
                  (Len(trace) = 2 /\ trace[2].cmd = <<str(binary), "-h">>)
            /\ opRes = "fail" => Len(trace) = 1

C24_Witness ==
    /\ op = "build_binary"
    /\ Len(trace) = 2
    /\ trace[1].o = "exit0"
    /\ trace[2].o = "exit2"
    /\ opRes = "ok"

\* C25: the verdict of run_tests depends on the test command only.  When
\* its commands have returned, run_tests returns True exactly when go test
\* exited with 0, with coverage and without; the coverage summary is made
\* only after the tests passed with coverage asked for and coverage.out
\* there, the HTML report only after the summary, and the exit codes of
\* these two change nothing in the verdict.
C25_TestVerdict ==
    (op = "run_tests" /\ AllReturned) =>
        LET plain == <<"go", "test", "-v", "./...">>
            cover == <<"go", "test", "-coverprofile=coverage.out", "-v", "./...">>
        IN  /\ opRes \in {"ok", "fail"}
            /\ trace[1].cmd \in {plain, cover}
            /\ opRes = "ok" <=> Exit0(trace[1])
            /\ Len(trace) <= 3
            /\ Len(trace) >= 2 =>
                  /\ Exit0(trace[1])
                  /\ trace[1].cmd = cover
                  /\ Exists(fs, <<"coverage.out">>)
                  /\ trace[2].cmd = <<"go", "tool", "cover", "-func=coverage.out">>
            /\ Len(trace) = 3 =>
                  /\ Exit0(trace[2])
                  /\ trace[3].cmd = <<"go", "tool", "cover", "-html=coverage.out",
                                      "-o", "coverage.html">>

C25_Witness ==
    /\ op = "run_tests"
    /\ Len(trace) = 3
    /\ trace[2].o = "exit0"
    /\ trace[3].o = "exit1"
    /\ opRes = "ok"

\* the environment the script is started in on a host
Inherited(h) == (CHOOSE c \in Configurations : c.host = h).environ

\* C23: no operation changes the environment of the process: whatever has
\* run, single-platform builds and matrix builds over several runs, os.environ
\* is what the script inherited; and the environment build_for_platform
\* prepares for a target is the inherited one with GOOS and GOARCH of that
\* target, whatever targets were built before it.
C23_EnvironmentUntouched ==
    /\ environ = Inherited(host)
    /\ attempted # << >> =>
          LET t == attempted[Len(attempted)]
          IN  platform_env = [x \in DOMAIN Inherited(host) \cup {"GOOS", "GOARCH"} |->
                                 IF x = "GOOS" THEN t[1]
                                 ELSE IF x = "GOARCH" THEN t[2]
                                 ELSE Inherited(host)[x]]

C23_Witness ==
    /\ runs = 2
    /\ command = "build-all"
    /\ Len(attempted) = 5
    /\ host = "Windows"
    /\ platform_env = [PATH |-> "/usr/bin", GOOS |-> "darwin", GOARCH |-> "arm64"]
    /\ environ = [PATH |-> "/usr/bin", GOOS |-> "linux", GOARCH |-> "amd64"]

\* C22: a run of the dispatcher that reaches a verdict prints the summary
\* once, before the process exits and not earlier, after success and after
\* every kind of failure, and the status of the summary agrees with the exit
\* code.  (A --platform that cannot be split ends the process before any
\* operation is called: no verdict, no summary.)
C22_SummaryOnce ==
    /\ (pc = "exited" /\ chain # << >>) =>
          /\ Len(summary) = 1
          /\ summary[1] = "SUCCESS" <=> exitCode = 0
          /\ summary[1] = "FAILED" <=> exitCode = 1
          /\ summary[1] = "SUCCESS" <=> RunSucceeded
    /\ pc \in {"steps", "buildinfo", "summary"} => summary = << >>
    /\ (pc = "exited" /\ chain = << >>) => summary = << >>

C22_Witness ==
    /\ pc = "exited"
    /\ command = "validate"
    /\ validateOutcome = "raised"
    /\ ~interrupted
    /\ summary = <<"FAILED">>
    /\ exitCode = 1

\* a run of validate has ended and the user has not interrupted it
PipelineEnded == pc = "exited" /\ command = "validate" /\ ~interrupted

\* every run that has started ends
RunTerminates == (pc \in {"steps", "buildinfo", "summary"}) ~> (pc = "exited")

\* C21: with external commands that terminate, every run of the pipeline
\* ends, and it ends with exactly one of two outcomes reported: all steps
\* succeeded, or a first failing step is named; never neither, never both.
C21_DefiniteVerdict ==
    /\ RunTerminates
    /\ [](PipelineEnded =>
            ((validateOutcome = "true" /\ exitCode = 0) # (failedStep # "none")))

====
